---- MODULE Spec2Model ----
(***************************************************************************)
(* Model of desktop/window-handlers/external-links/index.js: the           *)
(* navigation policy handlers of the desktop shell ('will-navigate',       *)
(* 'new-window') and the editor-authorization recovery flow                *)
(* ('cannot-open-editor', with its Enable-SSO round trip over ipc).        *)
(*                                                                         *)
(* A URL string is modelled by its text split into tokens                  *)
(* [protocol, slashes, host, port, path, redirect_to]; Parse is what       *)
(* `new URL(text)` does with these tokens (failure, host lower-casing,     *)
(* default-port removal, empty path -> "/"), Format is url.format().       *)
(***************************************************************************)
EXTENDS Integers, Sequences, FiniteSets, TLC

VARIABLES
    Config,      \* lib/config values read by the module (static after start)
    last,        \* what the most recent handler run did (its effects, in order)
    flows,       \* cannot-open-editor invocations, by arrival number
    listeners,   \* ipc listeners registered by enableSSOandContinue, per channel
    inflight     \* requests sent to the window content and not yet answered

vars == <<Config, last, flows, listeners, inflight>>

----------------------------------------------------------------------------
(* URL strings and the WHATWG URL parser                                    *)

\* The text  protocol + slashes*"/" + host [":" port] + path [?redirect_to=...]
Str(protocol, slashes, host, port, path, redirect) ==
    [protocol |-> protocol, slashes |-> slashes, host |-> host, port |-> port,
     path |-> path, redirect_to |-> redirect]

NoRedirect == << >>

\* The empty string.
EmptyStr == Str("", 0, "", "", "", NoRedirect)

SpecialSchemes == {"http:", "https:", "ftp:", "file:", "ws:", "wss:"}

DefaultPort(protocol) ==
    CASE protocol = "http:"  -> "80"
      [] protocol = "https:" -> "443"
      [] OTHER               -> "none"

\* ASCII lower-casing of the host names the model uses.
Lower(host) ==
    CASE host = "WordPress.com" -> "wordpress.com"
      [] host = "Example.Blog"  -> "example.blog"
      [] OTHER                  -> host

ParseFailure ==
    [ok |-> FALSE, protocol |-> "", hostname |-> "", port |-> "", pathname |-> "",
     redirect_to |-> NoRedirect]

\* new URL( text ): ok = FALSE stands for the TypeError it throws.
Parse(u) ==
    IF u.protocol = "" THEN ParseFailure
    ELSE IF u.protocol \in SpecialSchemes
    THEN IF u.host = "" /\ u.protocol # "file:" THEN ParseFailure
         ELSE [ok |-> TRUE, protocol |-> u.protocol, hostname |-> Lower(u.host),
               port |-> IF u.port = DefaultPort(u.protocol) THEN "" ELSE u.port,
               pathname |-> IF u.path = "" THEN "/" ELSE u.path,
               redirect_to |-> u.redirect_to]
    ELSE IF u.slashes = 2
    THEN [ok |-> TRUE, protocol |-> u.protocol, hostname |-> u.host, port |-> u.port,
          pathname |-> u.path, redirect_to |-> u.redirect_to]
    ELSE [ok |-> TRUE, protocol |-> u.protocol, hostname |-> "", port |-> "",
          pathname |-> u.path, redirect_to |-> u.redirect_to]

\* url.format( parsedUrl ): the serialised href of a parsed URL.
Format(p) ==
    Str(p.protocol,
        IF p.protocol \in SpecialSchemes \/ p.hostname # "" THEN 2 ELSE 0,
        p.hostname, p.port, p.pathname, p.redirect_to)

----------------------------------------------------------------------------
(* Module constants                                                         *)

\* SCALE_NEW_WINDOW_FACTOR = 0.9, as the fraction ScaleNum / ScaleDen
ScaleNum == 9
ScaleDen == 10
OFFSET_NEW_WINDOW == 50

\* lib/config: a desktop build, and a build whose server_url is the
\* public-api connect endpoint (both DONT_OPEN_IN_BROWSER entries coincide).
Configs ==
    { [server_host |-> "127.0.0.1",
       server_url |-> Str("http:", 2, "127.0.0.1", "41050", "", NoRedirect),
       wordpress_host |-> "wordpress.com"],
      [server_host |-> "calypso.localhost",
       server_url |-> Str("https:", 2, "public-api.wordpress.com", "", "/connect/", NoRedirect),
       wordpress_host |-> "wordpress.com"] }

DesktopConfig == CHOOSE c \in Configs : c.server_host = "127.0.0.1"

ALWAYS_OPEN_IN_APP ==
    << Str("http:", 2, Config.server_host, "", "", NoRedirect),
       Str("http:", 2, "localhost", "", "", NoRedirect),
       Str("http:", 2, "calypso.localhost", "3000", "/*", NoRedirect),
       Str("https:", 1, "public-api.wordpress.com", "", "", NoRedirect),
       Str("https:", 2, "wordpress.com", "", "/wp-login.php", NoRedirect),
       Str("http:", 2, "127.0.0.1", "41050", "/*", NoRedirect) >>

DONT_OPEN_IN_BROWSER ==
    << Config.server_url,
       Str("https:", 2, "public-api.wordpress.com", "", "/connect/", NoRedirect) >>

----------------------------------------------------------------------------
(* Effects of a handler run, in program order                               *)

Eff(op, arg) == [op |-> op, arg |-> arg]

Count(effects, op) == Cardinality({i \in 1..Len(effects) : effects[i].op = op})

\* The arguments of the calls of `op`, in order.
Args(effects, op) == SelectSeq(effects, LAMBDA e : e.op = op)

----------------------------------------------------------------------------
(* URL classifier                                                           *)

\* domainAndPathSame without the "/*" wildcard.
domainAndPathSame_NoWildcard(first, second) ==
    /\ first.hostname = second.hostname
    /\ first.pathname = second.pathname

\* domainAndPathSame taking the "/*" wildcard on either side.
domainAndPathSame_Symmetric(first, second) ==
    /\ first.hostname = second.hostname
    /\ (first.pathname = second.pathname \/ second.pathname = "/*" \/ first.pathname = "/*")

domainAndPathSame(first, second) ==
    /\ first.hostname = second.hostname
    /\ (first.pathname = second.pathname \/ second.pathname = "/*")

\* tag "throw": new URL( url ) threw; "url": `return url`; "false": `return false`
isValidBrowserUrl(url) ==
    LET parsedUrl == Parse(url) IN
    IF ~parsedUrl.ok THEN [tag |-> "throw", url |-> EmptyStr]
    ELSE IF parsedUrl.protocol = "http:" \/ parsedUrl.protocol = "https:"
    THEN [tag |-> "url", url |-> url]
    ELSE [tag |-> "false", url |-> EmptyStr]

\* openInBrowser with event.preventDefault() moved inside the `if`.
openInBrowser_SuppressOnlyValid(url) ==
    LET r == isValidBrowserUrl(url) IN
    IF r.tag = "throw" THEN [threw |-> TRUE, effects |-> << >>]
    ELSE IF r.tag = "url"
    THEN [threw |-> FALSE,
          effects |-> << Eff("log.info", << >>), Eff("openExternal", <<url>>),
                         Eff("preventDefault", << >>) >>]
    ELSE [threw |-> FALSE, effects |-> << >>]

\* openInBrowser( event, url ): the effects it has and whether it threw.
openInBrowser(url) ==
    LET r == isValidBrowserUrl(url) IN
    IF r.tag = "throw" THEN [threw |-> TRUE, effects |-> << >>]
    ELSE IF r.tag = "url"
    THEN [threw |-> FALSE,
          effects |-> << Eff("log.info", << >>), Eff("openExternal", <<url>>),
                         Eff("preventDefault", << >>) >>]
    ELSE [threw |-> FALSE, effects |-> << Eff("preventDefault", << >>) >>]

\* replaceInternalCalypsoUrl without `url.port = ''`.
replaceInternalCalypsoUrl_KeepsPort(url) ==
    IF url.hostname = Config.server_host
    THEN [url EXCEPT !.hostname = Config.wordpress_host]
    ELSE url

replaceInternalCalypsoUrl(url) ==
    IF url.hostname = Config.server_host
    THEN [url EXCEPT !.hostname = Config.wordpress_host, !.port = ""]
    ELSE url

\* for ( x = 0; x < list.length; x++ ) if ( domainAndPathSame( parsedUrl, new URL( list[ x ] ) ) ) ...
\* the index of the first entry that matches, 0 when the loop ends without one.
RECURSIVE FirstMatch(_, _, _)
FirstMatch(parsedUrl, list, x) ==
    IF x > Len(list) THEN 0
    ELSE IF domainAndPathSame(parsedUrl, Parse(list[x])) THEN x
    ELSE FirstMatch(parsedUrl, list, x + 1)

----------------------------------------------------------------------------
(* Handler runs                                                             *)

NoOptions == [x |-> 0, y |-> 0, width |-> 0, height |-> 0]

Step(kind, url, options0, options, effects, threw) ==
    [kind |-> kind, id |-> 0, url |-> url, options0 |-> options0, options |-> options,
     selected |-> -1, status |-> "", effects |-> effects, threw |-> threw]

NoStep == Step("none", EmptyStr, NoOptions, NoOptions, << >>, FALSE)

\* webContents.on( 'will-navigate', function( event, url ) ... )
WillNavigateRun(url) ==
    LET parsedUrl == Parse(url) IN
    IF ~parsedUrl.ok
    THEN Step("will-navigate", url, NoOptions, NoOptions, << >>, TRUE)
    ELSE IF FirstMatch(parsedUrl, ALWAYS_OPEN_IN_APP, 1) # 0
    THEN Step("will-navigate", url, NoOptions, NoOptions, << >>, FALSE)
    ELSE LET o == openInBrowser(url) IN
         Step("will-navigate", url, NoOptions, NoOptions, o.effects, o.threw)

\* The new-window geometry with the height left as it was.
ScaledOptions_HeightUnscaled(options) ==
    [x |-> options.x + OFFSET_NEW_WINDOW,
     y |-> options.y + OFFSET_NEW_WINDOW,
     width |-> (options.width * ScaleNum) \div ScaleDen,
     height |-> options.height]

ScaledOptions(options) ==
    [x |-> options.x + OFFSET_NEW_WINDOW,
     y |-> options.y + OFFSET_NEW_WINDOW,
     width |-> (options.width * ScaleNum) \div ScaleDen,
     height |-> (options.height * ScaleNum) \div ScaleDen]

\* webContents.on( 'new-window', function( event, url, frameName, disposition, options ) ... )
NewWindowRun(url, options) ==
    LET parsedUrl == Parse(url) IN
    IF ~parsedUrl.ok
    THEN Step("new-window", url, options, options, << >>, TRUE)
    ELSE IF FirstMatch(parsedUrl, DONT_OPEN_IN_BROWSER, 1) # 0
    THEN Step("new-window", url, options, ScaledOptions(options),
              << Eff("log.info", << >>) >>, FALSE)
    ELSE LET openUrl == Format(replaceInternalCalypsoUrl(parsedUrl))
             o == openInBrowser(openUrl)
         IN  Step("new-window", url, options, options,
                  (IF parsedUrl.hostname = Config.server_host
                   THEN << Eff("log.info", << >>) >> ELSE << >>) \o o.effects,
                  o.threw)

----------------------------------------------------------------------------
(* Inputs                                                                   *)

\* URLs the window runtime reports for a navigation: serialised by the
\* runtime's own URL parser, so every one of them parses and is in serialised form.
NavUrls ==
    { Str("https:", 2, "wordpress.com", "", "/wp-login.php", NoRedirect),
      Str("https:", 2, "wordpress.com", "", "/", NoRedirect),
      Str("http:", 2, "evil.example", "", "/x", NoRedirect),
      Str("https:", 2, "evil.example", "", "/x", NoRedirect),
      Str("http:", 2, "evil.example", "", "/", NoRedirect),
      Str("http:", 2, "127.0.0.1", "41050", "/log-in",
          << Str("https:", 2, "wordpress.com", "", "/post", NoRedirect) >>),
      Str("http:", 2, "calypso.localhost", "3000", "/log-in",
          << Str("https:", 2, "wordpress.com", "", "/post", NoRedirect) >>),
      Str("mailto:", 0, "", "", "a@b.c", NoRedirect),
      Str("file:", 2, "", "", "/etc/passwd", NoRedirect),
      Str("http:", 2, "127.0.0.1", "41050", "/", NoRedirect),
      Str("http:", 2, "127.0.0.1", "41050", "/post", NoRedirect),
      Str("http:", 2, "calypso.localhost", "3000", "/foo", NoRedirect),
      Str("http:", 2, "calypso.localhost", "3000", "/", NoRedirect),
      Str("https:", 2, "public-api.wordpress.com", "", "/connect/", NoRedirect),
      Str("https:", 2, "public-api.wordpress.com", "", "/", NoRedirect),
      Str("http:", 2, "localhost", "", "/", NoRedirect),
      Str("http:", 2, "localhost", "", "/x", NoRedirect) }

WindowOptions ==
    { [x |-> 0, y |-> 0, width |-> 800, height |-> 600],
      [x |-> 100, y |-> 20, width |-> 1280, height |-> 720],
      [x |-> 50, y |-> 50, width |-> 10, height |-> 10] }

----------------------------------------------------------------------------
(* The navigation handlers as a state machine                               *)

NoFlows == << >>
NoListeners == [ch \in {"enable-site-option-response", "request-site-response"} |-> << >>]
NoInflight == [enable |-> 0, site |-> 0]

InitNav ==
    /\ Config \in Configs
    /\ last = NoStep
    /\ flows = NoFlows
    /\ listeners = NoListeners
    /\ inflight = NoInflight

WillNavigate ==
    \E url \in NavUrls :
        /\ last' = WillNavigateRun(url)
        /\ UNCHANGED <<Config, flows, listeners, inflight>>

NewWindow ==
    \E url \in NavUrls, options \in WindowOptions :
        /\ last' = NewWindowRun(url, options)
        /\ UNCHANGED <<Config, flows, listeners, inflight>>

NextNav == WillNavigate \/ NewWindow

SpecNav == InitNav /\ [][NextNav]_vars

----------------------------------------------------------------------------
(* domainAndPathSame applied to pairs of URLs                               *)

SameUrls ==
    { Str("https:", 2, host, "", path, NoRedirect) :
        host \in {"wordpress.com", "WordPress.com", "evil.example"},
        path \in {"", "/", "/foo", "/*"} }

InitSame ==
    /\ Config = DesktopConfig
    /\ last = NoStep
    /\ flows = NoFlows
    /\ listeners = NoListeners
    /\ inflight = NoInflight

\* domainAndPathSame( new URL( first ), new URL( second ) )
CompareUrls ==
    \E first \in SameUrls, second \in SameUrls :
        /\ last' = [kind |-> "domainAndPathSame", first |-> first, second |-> second,
                    result |-> domainAndPathSame(Parse(first), Parse(second))]
        /\ UNCHANGED <<Config, flows, listeners, inflight>>

NextSame == CompareUrls

SpecSame == InitSame /\ [][NextSame]_vars

----------------------------------------------------------------------------
(* Editor-authorization recovery flow                                      *)

\* How many 'cannot-open-editor' signals a run of the model takes.
MaxFlows == 2

ENABLE_RESPONSE == "enable-site-option-response"
SITE_RESPONSE == "request-site-response"

\* A path (or any text without a scheme) as a string.
Text(path) == Str("", 0, "", "", path, NoRedirect)

\* parsedURL.origin
OriginOf(p) == Str(p.protocol, 2, p.hostname, p.port, "", NoRedirect)

\* extractRelativeEditorUrl( url ): tag "throw" when one of its new URL() calls throws.
extractRelativeEditorUrl(url) ==
    LET parsed == Parse(url) IN
    IF ~parsed.ok THEN [tag |-> "throw", value |-> EmptyStr]
    ELSE IF parsed.redirect_to # NoRedirect /\ parsed.redirect_to[1] # EmptyStr
    THEN LET parsedRedirect == Parse(parsed.redirect_to[1]) IN
         IF ~parsedRedirect.ok THEN [tag |-> "throw", value |-> EmptyStr]
         ELSE [tag |-> "value", value |-> Text(parsedRedirect.pathname)]
    ELSE [tag |-> "value", value |-> url]

Buttons(isAdmin) ==
    IF isAdmin THEN << "Enable SSO and Continue", "Proceed in Browser", "Cancel" >>
    ELSE << "Proceed in Browser", "Cancel" >>

\* The switch with the first two cases of an admin exchanged.
Choice_AdminSwapped(isAdmin, selected) ==
    CASE selected = 0 -> "ProceedInBrowser"
      [] selected = 1 -> IF isAdmin THEN "EnableSSO" ELSE "Cancel"
      [] selected = 2 -> "Cancel"
      [] OTHER        -> "None"

\* The transition the switch takes for the selected button index.
Choice(isAdmin, selected) ==
    CASE selected = 0 -> IF isAdmin THEN "EnableSSO" ELSE "ProceedInBrowser"
      [] selected = 1 -> IF isAdmin THEN "ProceedInBrowser" ELSE "Cancel"
      [] selected = 2 -> "Cancel"
      [] OTHER        -> "None"

\* enableSSOandContinue(): registers the activation listener, then sends the request.
enableSSOandContinue(info) ==
    << Eff("log.info", << >>),
       Eff("on", <<ENABLE_RESPONSE>>),
       Eff("send", <<"enable-site-option", [siteId |-> info.siteId, option |-> "sso"]>>) >>

\* proceedInBrowser handing the site's origin to openInBrowser.
proceedInBrowser_OpensOrigin(info) ==
    LET o == openInBrowser(info.origin) IN
    [threw |-> o.threw, effects |-> << Eff("log.info", << >>) >> \o o.effects]

\* proceedInBrowser()
proceedInBrowser(info) ==
    LET o == openInBrowser(info.editorUrl) IN
    [threw |-> o.threw, effects |-> << Eff("log.info", << >>) >> \o o.effects]

\* cancel()
cancel == << Eff("log.info", << >>) >>

\* showMySites( mainWindow ); Settings.saveSetting( LAST_LOCATION, `/stats/day/${hostname}` )
TerminalAction(parsedURL) ==
    << Eff("showMySites", << >>),
       Eff("saveSetting", <<"LAST_LOCATION", "/stats/day/", parsedURL.hostname>>) >>

\* promptWpAdminAuth with the terminal action after the try/catch instead of in the try.
promptWpAdminAuth_TerminalAfterCatch(info, dialogThrows, selected) ==
    LET parsedURL == Parse(info.origin)
        shown == << Eff("showMessageBox", <<Buttons(info.isAdmin), OriginOf(parsedURL)>>) >>
        caught == << Eff("log.error", << >>) >>
        choice == Choice(info.isAdmin, selected)
        terminal == IF info.isAdmin /\ selected = 0 /\ ~dialogThrows
                    THEN << >> ELSE TerminalAction(parsedURL)
    IN  IF dialogThrows THEN [choice |-> "DialogThrew", effects |-> shown \o caught \o terminal]
        ELSE IF choice = "EnableSSO"
        THEN [choice |-> choice, effects |-> shown \o enableSSOandContinue(info) \o terminal]
        ELSE IF choice = "ProceedInBrowser"
        THEN LET p == proceedInBrowser(info) IN
             [choice |-> choice,
              effects |-> shown \o p.effects \o (IF p.threw THEN caught ELSE << >>) \o terminal]
        ELSE [choice |-> choice, effects |-> shown \o cancel \o terminal]

\* promptWpAdminAuth(): dialogThrows is dialog.showMessageBox throwing, selected the
\* button index it returns otherwise. The effects, and the choice taken.
promptWpAdminAuth(info, dialogThrows, selected) ==
    LET parsedURL == Parse(info.origin)
        shown == << Eff("showMessageBox", <<Buttons(info.isAdmin), OriginOf(parsedURL)>>) >>
        caught == << Eff("log.error", << >>) >>
        choice == Choice(info.isAdmin, selected)
        terminal == IF info.isAdmin /\ selected = 0 THEN << >> ELSE TerminalAction(parsedURL)
    IN  IF dialogThrows THEN [choice |-> "DialogThrew", effects |-> shown \o caught]
        ELSE IF choice = "EnableSSO"
        THEN [choice |-> choice, effects |-> shown \o enableSSOandContinue(info) \o terminal]
        ELSE IF choice = "ProceedInBrowser"
        THEN LET p == proceedInBrowser(info) IN
             [choice |-> choice,
              effects |-> shown \o p.effects \o (IF p.threw THEN caught ELSE terminal)]
        ELSE [choice |-> choice, effects |-> shown \o cancel \o terminal]

\* The state an ipc emit threads through its listeners.
Emit(fl, ls, inf, effects, threw) ==
    [flows |-> fl, listeners |-> ls, inflight |-> inf, effects |-> effects, threw |-> threw]

Log(fl, id, effects) == [fl EXCEPT ![id].effects = @ \o effects]

\* The activation listener without the test of `status`.
ActivationListener_IgnoresStatus(s, id, status) ==
    LET info == s.flows[id].info
        effects == << Eff("listener", <<ENABLE_RESPONSE, status>>),
                      Eff("removeAllListeners", <<ENABLE_RESPONSE>>),
                      Eff("log.info", << >>),
                      Eff("on", <<SITE_RESPONSE>>),
                      Eff("send", <<"request-site", info.siteId>>) >>
    IN  Emit(Log(s.flows, id, effects),
             [s.listeners EXCEPT ![ENABLE_RESPONSE] = << >>, ![SITE_RESPONSE] = Append(@, id)],
             [s.inflight EXCEPT !.site = @ + 1],
             s.effects \o effects, FALSE)

\* The listener enableSSOandContinue registers on 'enable-site-option-response'.
ActivationListener(s, id, status) ==
    LET info == s.flows[id].info
        removed == [s.listeners EXCEPT ![ENABLE_RESPONSE] = << >>]
        head == << Eff("listener", <<ENABLE_RESPONSE, status>>),
                   Eff("removeAllListeners", <<ENABLE_RESPONSE>>) >>
    IN  IF status = "success"
        THEN LET effects == head \o << Eff("log.info", << >>),
                                       Eff("on", <<SITE_RESPONSE>>),
                                       Eff("send", <<"request-site", info.siteId>>) >>
             IN  Emit(Log(s.flows, id, effects),
                      [removed EXCEPT ![SITE_RESPONSE] = Append(@, id)],
                      [s.inflight EXCEPT !.site = @ + 1],
                      s.effects \o effects, FALSE)
        ELSE LET effects == head \o << Eff("log.info", << >>) >>
             IN  Emit(Log(s.flows, id, effects), removed, s.inflight,
                      s.effects \o effects, FALSE)

\* The listener the activation listener registers on 'request-site-response'.
RefreshListener(s, id) ==
    LET info == s.flows[id].info
        r == extractRelativeEditorUrl(info.editorUrl)
        head == << Eff("listener", <<SITE_RESPONSE>>), Eff("log.info", << >>) >>
        effects == IF r.tag = "throw" THEN head
                   ELSE head \o << Eff("send", <<"navigate", r.value>>) >>
    IN  Emit(Log(s.flows, id, effects), s.listeners, s.inflight,
             s.effects \o effects, r.tag = "throw")

\* ipc emit: calls the listeners registered when the emit started, in order of
\* registration; a listener that throws ends the emit.
RECURSIVE EmitActivation(_, _, _, _)
EmitActivation(s, snapshot, x, status) ==
    IF x > Len(snapshot) \/ s.threw THEN s
    ELSE EmitActivation(ActivationListener(s, snapshot[x], status), snapshot, x + 1, status)

RECURSIVE EmitRefresh(_, _, _)
EmitRefresh(s, snapshot, x) ==
    IF x > Len(snapshot) \/ s.threw THEN s
    ELSE EmitRefresh(RefreshListener(s, snapshot[x]), snapshot, x + 1)

FlowStep(kind, id, selected, status, effects, threw) ==
    [kind |-> kind, id |-> id, url |-> EmptyStr, options0 |-> NoOptions,
     options |-> NoOptions, selected |-> selected, status |-> status,
     effects |-> effects, threw |-> threw]

----------------------------------------------------------------------------
(* Inputs of the recovery flow                                              *)

Origins ==
    { Str("https:", 2, "Example.Blog", "", "", NoRedirect),
      Text("example.blog") }

EditorPlain == Str("https:", 2, "example.blog", "", "/wp-admin/post-new.php", NoRedirect)
EditorRedirect ==
    Str("https:", 2, "wordpress.com", "", "/wp-login.php",
        << Str("https:", 2, "wordpress.com", "", "/post/example.blog", NoRedirect) >>)
EditorRelativeRedirect ==
    Str("https:", 2, "wordpress.com", "", "/wp-login.php", << Text("/post/example.blog") >>)
EditorNoScheme == Text("example.blog/wp-admin/post-new.php")
EditorFile == Str("file:", 2, "", "", "/wp-admin/post-new.php", NoRedirect)

EditorUrls ==
    { EditorPlain, EditorRedirect, EditorRelativeRedirect, EditorNoScheme, EditorFile }

\* The payloads of 'cannot-open-editor': { siteId, origin, editorUrl, isAdmin }.
Infos ==
    { i \in [siteId : {7}, origin : Origins, editorUrl : EditorUrls, isAdmin : BOOLEAN] :
        Parse(i.origin).ok \/ i.editorUrl = EditorPlain }

----------------------------------------------------------------------------
(* The ipc handlers as a state machine                                      *)

Init ==
    /\ Config = DesktopConfig
    /\ last = NoStep
    /\ flows = NoFlows
    /\ listeners = NoListeners
    /\ inflight = NoInflight

\* ipc.on( 'cannot-open-editor', async( event, info ) => ... ) up to `await delay( 300 )`:
\* new URL( origin ) throwing rejects the async handler before the delay starts.
CannotOpenEditor ==
    \E info \in Infos :
        /\ Len(flows) < MaxFlows
        /\ LET id == Len(flows) + 1
               ok == Parse(info.origin).ok
               effects == << Eff("log.info", << >>) >>
           IN  /\ flows' = Append(flows, [info |-> info,
                                          pc |-> IF ok THEN "delay" ELSE "rejected",
                                          choice |-> "",
                                          effects |-> effects])
               /\ last' = FlowStep("cannot-open-editor", id, -1, "", effects, ~ok)
        /\ UNCHANGED <<Config, listeners, inflight>>

\* Timers of equal delay fire in the order they were set.
NextDelayed == CHOOSE id \in 1..Len(flows) :
    /\ flows[id].pc = "delay"
    /\ \A j \in 1..(id - 1) : flows[j].pc # "delay"

\* The delay elapses and promptWpAdminAuth() runs: the modal dialog returns the
\* index of one of its buttons, or the dialog call throws.
Prompt ==
    /\ \E id \in 1..Len(flows) : flows[id].pc = "delay"
    /\ LET id == NextDelayed
           info == flows[id].info
       IN  \E dialogThrows \in BOOLEAN, selected \in 0..(Len(Buttons(info.isAdmin)) - 1) :
            /\ dialogThrows => selected = 0
            /\ LET r == promptWpAdminAuth(info, dialogThrows, selected)
                   sso == r.choice = "EnableSSO"
               IN  /\ flows' = [flows EXCEPT ![id].pc = "prompted",
                                             ![id].choice = r.choice,
                                             ![id].effects = @ \o r.effects]
                   /\ listeners' = IF sso
                                   THEN [listeners EXCEPT ![ENABLE_RESPONSE] = Append(@, id)]
                                   ELSE listeners
                   /\ inflight' = IF sso THEN [inflight EXCEPT !.enable = @ + 1]
                                  ELSE inflight
                   /\ last' = FlowStep("prompt", id, IF dialogThrows THEN -1 ELSE selected,
                                       "", r.effects, FALSE)
    /\ UNCHANGED Config

\* The window content answers an 'enable-site-option' request.
EnableSiteOptionResponse ==
    \E status \in {"success", "error"} :
        /\ inflight.enable > 0
        /\ LET s0 == Emit(flows, listeners, [inflight EXCEPT !.enable = @ - 1], << >>, FALSE)
               s == EmitActivation(s0, listeners[ENABLE_RESPONSE], 1, status)
           IN  /\ flows' = s.flows
               /\ listeners' = s.listeners
               /\ inflight' = s.inflight
               /\ last' = FlowStep(ENABLE_RESPONSE, 0, -1, status, s.effects, s.threw)
        /\ UNCHANGED Config

\* The window content answers a 'request-site' request.
RequestSiteResponse ==
    /\ inflight.site > 0
    /\ LET s0 == Emit(flows, listeners, [inflight EXCEPT !.site = @ - 1], << >>, FALSE)
           s == EmitRefresh(s0, listeners[SITE_RESPONSE], 1)
       IN  /\ flows' = s.flows
           /\ listeners' = s.listeners
           /\ inflight' = s.inflight
           /\ last' = FlowStep(SITE_RESPONSE, 0, -1, "", s.effects, s.threw)
    /\ UNCHANGED Config

\* ipc.on( 'jetpack-module-activate-status', ... ): logs only.
JetpackModuleActivateStatus ==
    /\ last' = FlowStep("jetpack-module-activate-status", 0, -1, "",
                        << Eff("log.info", << >>) >>, FALSE)
    /\ UNCHANGED <<Config, flows, listeners, inflight>>

Next ==
    \/ CannotOpenEditor
    \/ Prompt
    \/ EnableSiteOptionResponse
    \/ RequestSiteResponse
    \/ JetpackModuleActivateStatus

Spec == Init /\ [][Next]_vars

----------------------------------------------------------------------------
(* Vocabulary of the properties                                             *)

\* The URL's host and path match an entry of the list: equal hostname, and equal
\* path or the entry's path is "/*".
MatchingEntries(url, list) ==
    { i \in 1..Len(list) :
        /\ Parse(url).hostname = Parse(list[i]).hostname
        /\ (Parse(url).pathname = Parse(list[i]).pathname \/ Parse(list[i]).pathname = "/*") }

\* The string parses as a URL whose scheme is http or https.
IsHttpUrl(url) == Parse(url).ok /\ Parse(url).protocol \in {"http:", "https:"}

\* How many messages the effects send to the window content on the channel.
Sends(effects, channel) ==
    Cardinality({i \in 1..Len(effects) :
                    effects[i].op = "send" /\ effects[i].arg[1] = channel})

\* How often a listener of the channel ran in the effects.
Runs(effects, channel) ==
    Cardinality({i \in 1..Len(effects) :
                    effects[i].op = "listener" /\ effects[i].arg[1] = channel})

Registered(id, channel) == \E i \in 1..Len(listeners[channel]) : listeners[channel][i] = id

Prompted == { id \in 1..Len(flows) : flows[id].pc = "prompted" }

\* The position of the first call of `op` in the effects, 0 when there is none.
FirstAt(effects, op) ==
    IF \E i \in 1..Len(effects) : effects[i].op = op
    THEN CHOOSE i \in 1..Len(effects) :
            effects[i].op = op /\ \A j \in 1..(i - 1) : effects[j].op # op
    ELSE 0

StatsLocation(origin) == <<"LAST_LOCATION", "/stats/day/", Parse(origin).hostname>>

----------------------------------------------------------------------------
(* Properties of the navigation handlers (SpecNav)                          *)

\* C1: a 'will-navigate' whose URL matches no entry of ALWAYS_OPEN_IN_APP has its
\* default suppressed (one preventDefault); shell.openExternal is called exactly once,
\* with that URL, if the scheme is http or https, and not at all otherwise.
C1_WillNavigateUnlisted ==
    (last.kind = "will-navigate" /\ MatchingEntries(last.url, ALWAYS_OPEN_IN_APP) = {})
    => /\ Count(last.effects, "preventDefault") = 1
       /\ Args(last.effects, "openExternal") =
            IF IsHttpUrl(last.url) THEN << Eff("openExternal", <<last.url>>) >> ELSE << >>

C1_Witness ==
    /\ last.kind = "will-navigate"
    /\ MatchingEntries(last.url, ALWAYS_OPEN_IN_APP) = {}
    /\ IsHttpUrl(last.url)
    /\ Count(last.effects, "openExternal") = 1
    /\ Count(last.effects, "preventDefault") = 1

\* C2: a 'will-navigate' whose URL matches an entry of ALWAYS_OPEN_IN_APP is left
\* alone: no preventDefault and no shell.openExternal.
C2_WillNavigateListed ==
    (last.kind = "will-navigate" /\ MatchingEntries(last.url, ALWAYS_OPEN_IN_APP) # {})
    => /\ Count(last.effects, "preventDefault") = 0
       /\ Count(last.effects, "openExternal") = 0
       /\ ~last.threw

\* A URL matched through a "/*" entry only, and left alone.
C2_Witness ==
    /\ last.kind = "will-navigate"
    /\ MatchingEntries(last.url, ALWAYS_OPEN_IN_APP) # {}
    /\ \A i \in MatchingEntries(last.url, ALWAYS_OPEN_IN_APP) :
          Parse(ALWAYS_OPEN_IN_APP[i]).pathname = "/*"
          /\ Parse(last.url).pathname # "/*"
    /\ last.effects = << >>

\* C10: a 'new-window' whose URL matches an entry of DONT_OPEN_IN_BROWSER gets
\* x+50, y+50, width*0.9, height*0.9 (once, however many entries match), no
\* shell.openExternal and no preventDefault.
C10_NewWindowInApp ==
    (last.kind = "new-window" /\ MatchingEntries(last.url, DONT_OPEN_IN_BROWSER) # {})
    => /\ last.options.x = last.options0.x + 50
       /\ last.options.y = last.options0.y + 50
       /\ last.options.width * 10 = last.options0.width * 9
       /\ last.options.height * 10 = last.options0.height * 9
       /\ Count(last.effects, "openExternal") = 0
       /\ Count(last.effects, "preventDefault") = 0
       /\ ~last.threw

\* Both entries of the list match the URL, and the options changed once.
C10_Witness ==
    /\ last.kind = "new-window"
    /\ Cardinality(MatchingEntries(last.url, DONT_OPEN_IN_BROWSER)) = 2
    /\ last.options0.width = 800
    /\ last.options.width = 720
    /\ last.options.x = last.options0.x + 50

\* The URL a 'new-window' of the URL routes to openInBrowser: host replaced by the
\* public host and port cleared when the host is the internal server host, the URL
\* itself otherwise.
Forwarded(url) ==
    LET p == Parse(url) IN
    IF p.hostname = Config.server_host
    THEN Str(p.protocol, 2, Config.wordpress_host, "", p.pathname, p.redirect_to)
    ELSE url

\* C11: a 'new-window' whose URL matches no entry of DONT_OPEN_IN_BROWSER has its
\* default suppressed and its options left alone; the URL routed to the external
\* browser (which openInBrowser opens when it is http(s)) has the public host, no port
\* and the same path and query when the host is the internal server host, and is the
\* URL unchanged for any other host.
C11_NewWindowExternal ==
    (last.kind = "new-window" /\ MatchingEntries(last.url, DONT_OPEN_IN_BROWSER) = {})
    => /\ Count(last.effects, "preventDefault") = 1
       /\ last.options = last.options0
       /\ Args(last.effects, "openExternal") =
            IF IsHttpUrl(Forwarded(last.url))
            THEN << Eff("openExternal", <<Forwarded(last.url)>>) >> ELSE << >>

\* An internal URL with a port and a query went out with the public host.
C11_Witness ==
    /\ last.kind = "new-window"
    /\ MatchingEntries(last.url, DONT_OPEN_IN_BROWSER) = {}
    /\ Parse(last.url).hostname = Config.server_host
    /\ last.url.port # ""
    /\ last.url.redirect_to # NoRedirect
    /\ Count(last.effects, "openExternal") = 1
    /\ \E i \in 1..Len(last.effects) :
          /\ last.effects[i].op = "openExternal"
          /\ last.effects[i].arg[1].host = Config.wordpress_host
          /\ last.effects[i].arg[1].port = ""
          /\ last.effects[i].arg[1].path = last.url.path
          /\ last.effects[i].arg[1].redirect_to = last.url.redirect_to

----------------------------------------------------------------------------
(* Properties of domainAndPathSame (SpecSame)                               *)

\* C12: domainAndPathSame(a, b) is true exactly when the hostnames are equal and the
\* paths are equal or b's path is "/*"; with equal hosts, "/*" on a and "/foo" on b
\* gives false while "/foo" on a and "/*" on b gives true.
C12_DomainAndPathSame ==
    last.kind = "domainAndPathSame"
    => LET a == Parse(last.first)
           b == Parse(last.second)
       IN  /\ last.result <=> (/\ a.hostname = b.hostname
                               /\ (a.pathname = b.pathname \/ b.pathname = "/*"))
           /\ (a.hostname = b.hostname /\ a.pathname = "/*" /\ b.pathname = "/foo")
              => ~last.result
           /\ (a.hostname = b.hostname /\ a.pathname = "/foo" /\ b.pathname = "/*")
              => last.result

\* The wildcard on the first URL only, hosts equal after lower-casing: no match.
C12_Witness ==
    /\ last.kind = "domainAndPathSame"
    /\ last.first.host # last.second.host
    /\ Parse(last.first).hostname = Parse(last.second).hostname
    /\ Parse(last.first).pathname = "/*"
    /\ Parse(last.second).pathname = "/foo"
    /\ ~last.result

----------------------------------------------------------------------------
(* Properties of the recovery flow (Spec)                                   *)

\* C3 (as claimed): isValidBrowserUrl returns its input for every http(s) URL and
\* false for every other input, strings that fail to parse included; here for the
\* editorUrl of every flow that took Proceed in Browser.
C3_IsValidBrowserUrlFailsClosed ==
    \A id \in Prompted :
        flows[id].choice = "ProceedInBrowser"
        => LET url == flows[id].info.editorUrl
               r == isValidBrowserUrl(url)
           IN  IF IsHttpUrl(url) THEN r.tag = "url" /\ r.url = url
               ELSE r.tag = "false"

\* C4 (as claimed): every call of openInBrowser ends with the event's default
\* suppressed, and shell.openExternal is called exactly when the URL is a valid
\* http(s) URL; here for the call proceedInBrowser makes.
C4_OpenInBrowserAlwaysSuppresses ==
    \A id \in Prompted :
        flows[id].choice = "ProceedInBrowser"
        => /\ Count(flows[id].effects, "preventDefault") = 1
           /\ Count(flows[id].effects, "openExternal") =
                IF IsHttpUrl(flows[id].info.editorUrl) THEN 1 ELSE 0

\* C5 (as claimed): once the activation listener of a flow ran with 'success' and its
\* refresh listener ran, neither listener is registered any more and each ran once.
C5_OneShotListenersRemoved ==
    \A id \in Prompted :
        (/\ flows[id].choice = "EnableSSO"
         /\ \E i \in 1..Len(flows[id].effects) :
                /\ flows[id].effects[i].op = "listener"
                /\ flows[id].effects[i].arg = <<ENABLE_RESPONSE, "success">>
         /\ Runs(flows[id].effects, SITE_RESPONSE) >= 1)
        => /\ ~Registered(id, ENABLE_RESPONSE)
           /\ ~Registered(id, SITE_RESPONSE)
           /\ Runs(flows[id].effects, ENABLE_RESPONSE) <= 1
           /\ Runs(flows[id].effects, SITE_RESPONSE) <= 1

\* C6 (as claimed): one 'enable-site-option-response' causes at most one
\* 'request-site', and one 'request-site-response' at most one 'navigate'.
C6_NoDuplicateSideEffects ==
    /\ last.kind = ENABLE_RESPONSE => Sends(last.effects, "request-site") <= 1
    /\ last.kind = SITE_RESPONSE => Sends(last.effects, "navigate") <= 1

\* C7 (as claimed): when the dialog returned, the terminal action (showMySites, then
\* last-location saved as /stats/day/<hostname of origin>) happens exactly once for
\* Proceed in Browser and Cancel, and never in a flow that took Enable SSO.
C7_TerminalAction ==
    \A id \in Prompted :
        LET f == flows[id] IN
        /\ f.choice \in {"ProceedInBrowser", "Cancel"}
           => /\ Count(f.effects, "showMySites") = 1
              /\ Args(f.effects, "saveSetting") =
                   << Eff("saveSetting", StatsLocation(f.info.origin)) >>
        /\ f.choice = "EnableSSO"
           => /\ Count(f.effects, "showMySites") = 0
              /\ Count(f.effects, "saveSetting") = 0

PromptRaised(f) ==
    \/ f.choice = "DialogThrew"
    \/ f.choice = "ProceedInBrowser" /\ ~Parse(f.info.editorUrl).ok

\* C9: an exception raised while the dialog is shown or processed is caught and logged
\* once at error level, and the flow has no side effect: no showMySites, no settings
\* write, no shell.openExternal, no listener and no message to the window.
C9_PromptFailureHasNoSideEffects ==
    /\ last.kind = "prompt" => ~last.threw
    /\ \A id \in Prompted :
        LET f == flows[id] IN
        PromptRaised(f)
        => /\ Count(f.effects, "log.error") = 1
           /\ Count(f.effects, "showMySites") = 0
           /\ Count(f.effects, "saveSetting") = 0
           /\ Count(f.effects, "openExternal") = 0
           /\ Count(f.effects, "on") = 0
           /\ Count(f.effects, "send") = 0

\* Both kinds of failure happened: the dialog call threw in one flow, the processing
\* of the choice threw in another.
C9_Witness ==
    /\ \E id \in Prompted :
          flows[id].choice = "DialogThrew" /\ Count(flows[id].effects, "log.error") = 1
    /\ \E id \in Prompted :
          /\ flows[id].choice = "ProceedInBrowser"
          /\ ~Parse(flows[id].info.editorUrl).ok
          /\ Count(flows[id].effects, "log.error") = 1

\* The positions of the effects at which the message is sent on the channel.
SentAt(effects, channel) ==
    { i \in 1..Len(effects) : effects[i].op = "send" /\ effects[i].arg[1] = channel }

\* The positions at which the activation listener was entered with the status.
ActivatedAt(effects, status) ==
    { i \in 1..Len(effects) :
        effects[i].op = "listener" /\ effects[i].arg = <<ENABLE_RESPONSE, status>> }

\* The positions at which the refresh listener was entered.
RefreshedAt(effects) ==
    { i \in 1..Len(effects) :
        effects[i].op = "listener" /\ effects[i].arg = <<SITE_RESPONSE>> }

SSOFlows == { id \in Prompted : flows[id].choice = "EnableSSO" }

\* C13: in a flow that took Enable SSO, 'enable-site-option' {siteId, option 'sso'} is the
\* first message sent; 'request-site' is sent only after an activation response with
\* status 'success' was received after it; 'navigate' only after a refresh response
\* received after that 'request-site'. After an activation response with another
\* status the flow sends no 'request-site' and no 'navigate' and does no terminal action.
C13_SSOMessageOrder ==
    /\ \A id \in SSOFlows :
        LET e == flows[id].effects
            enable == SentAt(e, "enable-site-option")
        IN  /\ Cardinality(enable) = 1
            /\ \A i \in enable :
                  /\ e[i].arg[2] = [siteId |-> flows[id].info.siteId, option |-> "sso"]
                  /\ \A j \in 1..(i - 1) : e[j].op # "send"
            /\ \A i \in SentAt(e, "request-site") :
                  \E j \in ActivatedAt(e, "success") :
                      j < i /\ \E k \in enable : k < j
            /\ \A i \in SentAt(e, "navigate") :
                  \E j \in RefreshedAt(e) :
                      j < i /\ \E k \in SentAt(e, "request-site") : k < j
            /\ ActivatedAt(e, "error") # {}
               => /\ SentAt(e, "request-site") = {}
                  /\ SentAt(e, "navigate") = {}
                  /\ Count(e, "showMySites") = 0
                  /\ Count(e, "saveSetting") = 0
    /\ (last.kind = ENABLE_RESPONSE /\ last.status # "success")
       => /\ Count(last.effects, "send") = 0
          /\ Count(last.effects, "showMySites") = 0
          /\ Count(last.effects, "saveSetting") = 0

\* One flow went through the whole round trip, another had its activation refused.
C13_Witness ==
    /\ \E id \in SSOFlows : SentAt(flows[id].effects, "navigate") # {}
    /\ \E id \in SSOFlows :
          /\ ActivatedAt(flows[id].effects, "error") # {}
          /\ SentAt(flows[id].effects, "request-site") = {}

\* The names of the calls other than logging and the dialog itself, in order.
SideEffectOps(effects) ==
    LET side == SelectSeq(effects, LAMBDA e : e.op \notin {"log.info", "showMessageBox"})
    IN  [i \in 1..Len(side) |-> side[i].op]

\* C14: the dialog of an admin flow offers 'Enable SSO and Continue', 'Proceed in
\* Browser', 'Cancel' in this order, and the selected index decides the transition:
\* 0 starts the SSO round trip and calls neither shell.openExternal nor preventDefault,
\* 1 hands editorUrl to openInBrowser and starts no round trip, 2 does the terminal
\* action and nothing else.
C14_AdminChoices ==
    (last.kind = "prompt" /\ flows[last.id].info.isAdmin)
    => LET f == flows[last.id]
           e == last.effects
       IN  /\ Count(e, "showMessageBox") = 1
           /\ \A i \in 1..Len(e) :
                 e[i].op = "showMessageBox"
                 => e[i].arg[1] = << "Enable SSO and Continue", "Proceed in Browser", "Cancel" >>
           /\ last.selected = 0
              => /\ f.choice = "EnableSSO"
                 /\ SideEffectOps(e) = << "on", "send" >>
                 /\ Cardinality(SentAt(e, "enable-site-option")) = 1
                 /\ Registered(last.id, ENABLE_RESPONSE)
           /\ last.selected = 1
              => /\ f.choice = "ProceedInBrowser"
                 /\ Args(e, "openExternal") =
                      Args(openInBrowser(f.info.editorUrl).effects, "openExternal")
                 /\ Count(e, "preventDefault") =
                      Count(openInBrowser(f.info.editorUrl).effects, "preventDefault")
                 /\ Count(e, "on") = 0
                 /\ Count(e, "send") = 0
           /\ last.selected = 2
              => /\ f.choice = "Cancel"
                 /\ SideEffectOps(e) = << "showMySites", "saveSetting" >>
                 /\ Args(e, "saveSetting") =
                      << Eff("saveSetting", StatsLocation(f.info.origin)) >>

\* An admin selected the second button and the editor URL went to the browser.
C14_Witness ==
    /\ last.kind = "prompt"
    /\ flows[last.id].info.isAdmin
    /\ last.selected = 1
    /\ Args(last.effects, "openExternal") =
         << Eff("openExternal", <<flows[last.id].info.editorUrl>>) >>

\* C15 (as claimed): every 'cannot-open-editor' signal leads to exactly one
\* presentation of the dialog, made by the run that follows the delay; a flow has no
\* side effect before its dialog returned; other events are handled while a flow
\* waits in its delay.
C15_OneDialogAfterDelay ==
    /\ \A id \in 1..Len(flows) :
        LET f == flows[id] IN
        /\ f.pc = "delay"
           => /\ Count(f.effects, "showMessageBox") = 0
              /\ SideEffectOps(f.effects) = << >>
        /\ f.pc # "delay"
           => /\ Count(f.effects, "showMessageBox") = 1
              /\ \A i \in 1..Len(f.effects) :
                    f.effects[i].op # "log.info"
                    => FirstAt(f.effects, "showMessageBox") <= i
    /\ last.kind # "prompt" => Count(last.effects, "showMessageBox") = 0
    /\ (\E id \in 1..Len(flows) : flows[id].pc = "delay")
       => ENABLED JetpackModuleActivateStatus

\* The path the claim names for an editor URL: the path component of its
\* 'redirect_to' parameter when present, the editor URL itself when absent.
NavigatePath(editorUrl) ==
    LET redirect == Parse(editorUrl).redirect_to
    IN  IF redirect # NoRedirect /\ redirect[1] # EmptyStr
        THEN Text(Parse(redirect[1]).pathname)
        ELSE editorUrl

\* C16 (as claimed): every 'navigate' a flow's refresh listener sends carries the path
\* component of the 'redirect_to' parameter of that flow's editorUrl, or the editorUrl
\* unchanged when it has none; and the 'navigate' messages sent while one refresh
\* response is handled all carry the value of one flow, the one the response is for.
C16_NavigateValue ==
    /\ \A id \in 1..Len(flows) :
         \A i \in SentAt(flows[id].effects, "navigate") :
            flows[id].effects[i].arg[2] = NavigatePath(flows[id].info.editorUrl)
    /\ last.kind = SITE_RESPONSE
       => \E id \in 1..Len(flows) :
            \A i \in SentAt(last.effects, "navigate") :
                last.effects[i].arg[2] = NavigatePath(flows[id].info.editorUrl)

\* A listener of the channel is registered in the effects before position i.
OnBefore(effects, channel, i) ==
    \E j \in 1..(i - 1) : effects[j].op = "on" /\ effects[j].arg[1] = channel

\* C17 (as claimed): in every flow the 'enable-site-option-response' listener is
\* registered before 'enable-site-option' is sent and the 'request-site-response'
\* listener before 'request-site' is sent; and as long as a request is unanswered a
\* listener is registered on the channel of its response.
C17_ListenerBeforeRequest ==
    /\ \A id \in 1..Len(flows) :
        LET e == flows[id].effects IN
        /\ \A i \in SentAt(e, "enable-site-option") : OnBefore(e, ENABLE_RESPONSE, i)
        /\ \A i \in SentAt(e, "request-site") : OnBefore(e, SITE_RESPONSE, i)
    /\ inflight.enable > 0 => listeners[ENABLE_RESPONSE] # << >>
    /\ inflight.site > 0 => listeners[SITE_RESPONSE] # << >>

\* C18 (as claimed): a flow that took Enable SSO and whose listeners were entered by an
\* activation response with status 'success' and by a refresh response has sent
\* 'navigate' exactly once; a flow no activation response has reached has done nothing
\* since it sent its request, and a flow no refresh response has reached has sent no
\* 'navigate'.
C18_NavigateExactlyOnce ==
    \A id \in SSOFlows :
        LET e == flows[id].effects
            navigates == Cardinality(SentAt(e, "navigate"))
        IN  /\ navigates <= 1
            /\ (ActivatedAt(e, "success") # {} /\ RefreshedAt(e) # {}) => navigates = 1
            /\ (ActivatedAt(e, "success") = {} /\ ActivatedAt(e, "error") = {})
               => SideEffectOps(e) = << "on", "send" >>
            /\ RefreshedAt(e) = {} => navigates = 0

====
